---- MODULE Spec2Model ----
(***************************************************************************)
(* A model of datrie/alpha-map.c: the AlphaMap range list, the two lookups *)
(* between AlphaChar and TrieChar, the binary codec and the text loader.   *)
(*                                                                         *)
(* A 32-bit quantity (AlphaChar, int32, int, uint32) is held as the        *)
(* integer in MinInt32..MaxInt32 with the same bit pattern, since that is  *)
(* the range of integers the model checker computes with; the unsigned     *)
(* value of a negative word w is w + 2^32.  AddW/SubW wrap modulo 2^32,    *)
(* LtU compares the unsigned values and < compares the signed ones.        *)
(* AlphaChar is the 32-bit unsigned type and TrieChar the 8-bit unsigned   *)
(* type of the headers: a conversion to AlphaChar keeps the pattern.       *)
(* malloc is taken to succeed: heap exhaustion is not modelled.            *)
(***************************************************************************)
EXTENDS Integers, Sequences, FiniteSets, TLC

VARIABLES
    alpha_map,   \* the AlphaMap under construction (struct _AlphaMap and its ranges)
    calls,       \* the alpha_map_add_range calls made on alpha_map: begin, end, ret
    query,       \* the last lookup made on alpha_map: op, arg, res
    text,        \* the lines of the text resource alpha_map_open reads
    opened,      \* what alpha_map_open returned: done, ret (NULL or 1), map
    diag,        \* the (b, e) pairs of the diagnostics written to stderr
    file,        \* the bytes of the binary stream
    fpos,        \* the position of the binary stream, in bytes
    wr,          \* the last alpha_map_write_bin call: start, ret, ranges written
    rd           \* the last alpha_map_read_bin call: start, ret, map, end

mapVars == <<alpha_map, calls, query>>
textVars == <<text, opened, diag>>
binVars == <<file, fpos, wr, rd>>
vars == <<alpha_map, calls, query, text, opened, diag, file, fpos, wr, rd>>

-----------------------------------------------------------------------------
(* Machine integers *)

MaxInt32 == 2147483647
MinInt32 == -2147483647 - 1

\* a + b modulo 2^32, on bit patterns
AddW(a, b) ==
    IF b >= 0
    THEN IF a > MaxInt32 - b THEN (a + MinInt32) + (b + MinInt32) ELSE a + b
    ELSE IF a < MinInt32 - b THEN (a - MinInt32) + (b - MinInt32) ELSE a + b

NegW(b) == IF b = MinInt32 THEN MinInt32 ELSE 0 - b

\* a - b modulo 2^32, on bit patterns
SubW(a, b) == AddW(a, NegW(b))

\* unsigned comparison a < b of two 32-bit patterns
LtU(a, b) ==
    IF (a >= 0) = (b >= 0) THEN a < b ELSE a >= 0

\* typedef unsigned char TrieChar
TrieCharBits == 8

\* conversion of a 32-bit value to TrieChar: the low 8 bits
ToTrieChar(w) == w % (2 ^ TrieCharBits)

TRIE_CHAR_MAX == 255

\* ~(AlphaChar)0
ALPHA_CHAR_ERROR == -1

NULL == 0

-----------------------------------------------------------------------------
(* struct _AlphaRange, struct _AlphaMap.  An AlphaMap value carries the    *)
(* AlphaRange cells malloc'ed for it: node[a] is the cell at address a.    *)

AlphaRange(n, b, e) == [next |-> n, begin |-> b, end |-> e]

AlphaMap(f, l, cells) == [first_range |-> f, last_range |-> l, node |-> cells]

alpha_map_new == AlphaMap(NULL, NULL, <<>>)

\* the (begin, end) pairs met walking range = p; range; range = range->next
RECURSIVE Walk(_, _)
Walk(m, p) ==
    IF p = NULL THEN <<>>
    ELSE <<<<m.node[p].begin, m.node[p].end>>>> \o Walk(m, m.node[p].next)

RangeSeq(m) == Walk(m, m.first_range)

RECURSIVE CountFrom(_, _)
CountFrom(m, p) == IF p = NULL THEN 0 ELSE 1 + CountFrom(m, m.node[p].next)

alpha_map_get_total_ranges(m) == CountFrom(m, m.first_range)

\* faulty variant: the new cell is linked but last_range is left where it was
add_range_stale_tail(m, begin, end) ==
    IF LtU(end, begin) THEN [ret |-> -1, map |-> m]
    ELSE LET range == Len(m.node) + 1
             cells == Append(m.node, AlphaRange(NULL, begin, end))
         IN  IF m.last_range # NULL
             THEN [ret |-> 0,
                   map |-> AlphaMap(m.first_range, m.last_range,
                                    [cells EXCEPT ![m.last_range].next = range])]
             ELSE [ret |-> 0, map |-> AlphaMap(range, range, cells)]

\* faulty variant: the new cell is pushed at the head of the list
add_range_at_head(m, begin, end) ==
    IF LtU(end, begin) THEN [ret |-> -1, map |-> m]
    ELSE LET range == Len(m.node) + 1
             cells == Append(m.node, AlphaRange(m.first_range, begin, end))
         IN  [ret |-> 0,
              map |-> AlphaMap(range,
                               IF m.last_range # NULL THEN m.last_range ELSE range,
                               cells)]

\* alpha_map_add_range: the result and the map afterwards
alpha_map_add_range(m, begin, end) ==
    IF LtU(end, begin) THEN [ret |-> -1, map |-> m]
    ELSE LET range == Len(m.node) + 1
             cells == Append(m.node, AlphaRange(NULL, begin, end))
         IN  IF m.last_range # NULL
             THEN [ret |-> 0,
                   map |-> AlphaMap(m.first_range, range,
                                    [cells EXCEPT ![m.last_range].next = range])]
             ELSE [ret |-> 0, map |-> AlphaMap(range, range, cells)]

\* the for loop of alpha_map_char_to_trie, from (range, alpha_begin)
RECURSIVE CharToTrieLoop(_, _, _, _)
CharToTrieLoop(m, ac, range, alpha_begin) ==
    IF range # NULL /\ (LtU(ac, m.node[range].begin) \/ LtU(m.node[range].end, ac))
    THEN CharToTrieLoop(m, ac, m.node[range].next,
             ToTrieChar(AddW(alpha_begin,
                 AddW(SubW(m.node[range].end, m.node[range].begin), 1))))
    ELSE IF range # NULL
         THEN ToTrieChar(AddW(alpha_begin, SubW(ac, m.node[range].begin)))
         ELSE TRIE_CHAR_MAX

alpha_map_char_to_trie(m, ac) ==
    IF ac = 0 THEN 0 ELSE CharToTrieLoop(m, ac, m.first_range, 1)

\* the for loop of alpha_map_trie_to_char, from (range, alpha_begin)
RECURSIVE TrieToCharLoop(_, _, _, _)
TrieToCharLoop(m, tc, range, alpha_begin) ==
    IF range # NULL
       /\ LtU(AddW(alpha_begin, SubW(m.node[range].end, m.node[range].begin)), tc)
    THEN TrieToCharLoop(m, tc, m.node[range].next,
             ToTrieChar(AddW(alpha_begin,
                 AddW(SubW(m.node[range].end, m.node[range].begin), 1))))
    ELSE IF range # NULL
         THEN AddW(m.node[range].begin, SubW(tc, alpha_begin))
         ELSE ALPHA_CHAR_ERROR

alpha_map_trie_to_char(m, tc) ==
    IF tc = 0 THEN 0 ELSE TrieToCharLoop(m, tc, m.first_range, 1)

-----------------------------------------------------------------------------
(* alpha_map_open.  A line is the sequence of its characters.  sscanf is   *)
(* the C library's: white space in the format skips white space, %x skips  *)
(* white space and reads an optional sign, an optional 0x and hexadecimal   *)
(* digits into an unsigned int (here at most 8 digits, so no overflow).     *)

IsSpace(ch) == ch \in {" ", "\t", "\n", "\r"}

IsHex(ch) ==
    ch \in {"0", "1", "2", "3", "4", "5", "6", "7", "8", "9",
            "a", "b", "c", "d", "e", "f", "A", "B", "C", "D", "E", "F"}

HexVal(ch) ==
    CASE ch = "0" -> 0 [] ch = "1" -> 1 [] ch = "2" -> 2 [] ch = "3" -> 3
      [] ch = "4" -> 4 [] ch = "5" -> 5 [] ch = "6" -> 6 [] ch = "7" -> 7
      [] ch = "8" -> 8 [] ch = "9" -> 9
      [] ch \in {"a", "A"} -> 10 [] ch \in {"b", "B"} -> 11
      [] ch \in {"c", "C"} -> 12 [] ch \in {"d", "D"} -> 13
      [] ch \in {"e", "E"} -> 14 [] ch \in {"f", "F"} -> 15

\* w << 4 on a 32-bit pattern
Shl4(w) ==
    LET u == w % 268435456
    IN  IF u >= 134217728 THEN (u - 268435456) * 16 ELSE u * 16

RECURSIVE SkipSpace(_, _)
SkipSpace(line, i) ==
    IF i <= Len(line) /\ IsSpace(line[i]) THEN SkipSpace(line, i + 1) ELSE i

RECURSIVE ScanDigits(_, _, _)
ScanDigits(line, i, acc) ==
    IF i <= Len(line) /\ IsHex(line[i])
    THEN ScanDigits(line, i + 1, AddW(Shl4(acc), HexVal(line[i])))
    ELSE [val |-> acc, next |-> i]

\* the position after an optional sign at position i
AfterSign(line, i) ==
    IF i <= Len(line) /\ line[i] \in {"-", "+"} THEN i + 1 ELSE i

\* the position after an optional 0x at position j
AfterPrefix(line, j) ==
    IF /\ j + 2 <= Len(line)
       /\ line[j] = "0"
       /\ line[j + 1] \in {"x", "X"}
       /\ IsHex(line[j + 2])
    THEN j + 2 ELSE j

\* the outcome of %x given the sign, the position k of the first digit and
\* the digits d scanned from there
HexResult(neg, k, d) ==
    IF d.next = k
    THEN [ok |-> FALSE, val |-> 0, next |-> k]
    ELSE [ok |-> TRUE, val |-> IF neg THEN NegW(d.val) ELSE d.val, next |-> d.next]

\* %x from position i, white space skipped
HexFrom(line, i, k) ==
    HexResult(i <= Len(line) /\ line[i] = "-", k, ScanDigits(line, k, 0))

\* one %x conversion from position i0: whether it matched, the value, the
\* position after it
ScanHex(line, i0) ==
    HexFrom(line, SkipSpace(line, i0),
            AfterPrefix(line, AfterSign(line, SkipSpace(line, i0))))

\* both conversions made
ScanEnd(hb, he) ==
    IF ~he.ok THEN [n |-> 1, b |-> hb.val, e |-> 0]
    ELSE [n |-> 2, b |-> hb.val, e |-> he.val]

\* " , %x" at position i2, after the first conversion hb
ScanComma(line, hb, i2) ==
    IF ~(i2 <= Len(line) /\ line[i2] = ",")
    THEN [n |-> 1, b |-> hb.val, e |-> 0]
    ELSE ScanEnd(hb, ScanHex(line, i2 + 1))

\* what follows the first conversion hb
ScanBegin(line, hb) ==
    IF ~hb.ok THEN [n |-> 0, b |-> 0, e |-> 0]
    ELSE ScanComma(line, hb, SkipSpace(line, hb.next))

\* "[ %x" at position i1
ScanOpen(line, i1) ==
    IF ~(i1 <= Len(line) /\ line[i1] = "[")
    THEN [n |-> 0, b |-> 0, e |-> 0]
    ELSE ScanBegin(line, ScanHex(line, i1 + 1))

\* sscanf (line, " [ %x , %x ] ", &b, &e): the number of conversions n and
\* the ints b and e (read by the caller only when n = 2)
sscanf_range(line) == ScanOpen(line, SkipSpace(line, 1))

\* the while (fgets ...) loop of alpha_map_open over the lines left: the map
\* and the diagnostics afterwards.  b > e compares the two ints.
RECURSIVE ReadLines(_, _, _)
ReadLines(lines, m, d) ==
    IF lines = <<>> THEN [map |-> m, diag |-> d]
    ELSE LET s == sscanf_range(Head(lines))
         IN  IF s.n # 2 THEN ReadLines(Tail(lines), m, d)
             ELSE IF s.b > s.e
                  THEN ReadLines(Tail(lines), m, Append(d, <<s.b, s.e>>))
                  ELSE ReadLines(Tail(lines),
                           alpha_map_add_range(m, s.b, s.e).map, d)

\* alpha_map_open: file_ok is whether file_open returned a stream
alpha_map_open(file_ok, lines) ==
    IF ~file_ok
    THEN [ret |-> NULL, map |-> alpha_map_new, diag |-> <<>>]
    ELSE LET r == ReadLines(lines, alpha_map_new, <<>>)
         IN  [ret |-> 1, map |-> r.map, diag |-> r.diag]

-----------------------------------------------------------------------------
(* The binary stream.  file_read_int32 and file_write_int32 (fileutils.h)  *)
(* move one 32-bit integer as 4 bytes, most significant first, and return  *)
(* whether they did.                                                        *)

ALPHAMAP_SIGNATURE_B0 == 217
ALPHAMAP_SIGNATURE_B1 == 252

\* the bytes of a 32-bit pattern, most significant first
Int32Bytes(w) ==
    <<(w \div 16777216) % 256, (w \div 65536) % 256, (w \div 256) % 256, w % 256>>

\* the 32-bit pattern of 4 bytes, most significant first
BytesInt32(b) ==
    (IF b[1] >= 128 THEN b[1] - 256 ELSE b[1]) * 16777216
        + b[2] * 65536 + b[3] * 256 + b[4]

\* #define ALPHAMAP_SIGNATURE 0xD9FCD9FC
ALPHAMAP_SIGNATURE ==
    BytesInt32(<<ALPHAMAP_SIGNATURE_B0, ALPHAMAP_SIGNATURE_B1,
                 ALPHAMAP_SIGNATURE_B0, ALPHAMAP_SIGNATURE_B1>>)

\* file_read_int32 at position pos: a short read fails and leaves the stream
\* at its end
file_read_int32(bytes, pos) ==
    IF pos + 4 <= Len(bytes)
    THEN [ok |-> TRUE, val |-> BytesInt32(SubSeq(bytes, pos + 1, pos + 4)),
          pos |-> pos + 4]
    ELSE [ok |-> FALSE, val |-> 0, pos |-> Len(bytes)]

\* the stream st = (bytes, pos, budget) after file_write_int32 of val: the
\* stream takes budget more integers and then fails, writing nothing
file_write_int32(st, val) ==
    IF st.budget = 0
    THEN [ok |-> FALSE, bytes |-> st.bytes, pos |-> st.pos, budget |-> 0]
    ELSE [ok |-> TRUE,
          bytes |-> SubSeq(st.bytes, 1, st.pos) \o Int32Bytes(val)
                        \o SubSeq(st.bytes, st.pos + 5, Len(st.bytes)),
          pos |-> st.pos + 4,
          budget |-> st.budget - 1]

\* the for loop of alpha_map_write_bin from range
RECURSIVE WriteRanges(_, _, _)
WriteRanges(m, range, st) ==
    IF range = NULL THEN [ret |-> 0, bytes |-> st.bytes, pos |-> st.pos]
    ELSE LET w1 == file_write_int32(st, m.node[range].begin)
         IN  IF ~w1.ok THEN [ret |-> -1, bytes |-> w1.bytes, pos |-> w1.pos]
             ELSE LET w2 == file_write_int32(w1, m.node[range].end)
                  IN  IF ~w2.ok
                      THEN [ret |-> -1, bytes |-> w2.bytes, pos |-> w2.pos]
                      ELSE WriteRanges(m, m.node[range].next, w2)

\* faulty variant: the range count is not written
write_bin_no_count(m, bytes, pos, budget) ==
    LET w1 == file_write_int32([bytes |-> bytes, pos |-> pos, budget |-> budget],
                               ALPHAMAP_SIGNATURE)
    IN  IF ~w1.ok THEN [ret |-> -1, bytes |-> w1.bytes, pos |-> w1.pos]
        ELSE WriteRanges(m, m.first_range, w1)

\* alpha_map_write_bin: the result, the stream's bytes and position afterwards
alpha_map_write_bin(m, bytes, pos, budget) ==
    LET w1 == file_write_int32([bytes |-> bytes, pos |-> pos, budget |-> budget],
                               ALPHAMAP_SIGNATURE)
    IN  IF ~w1.ok THEN [ret |-> -1, bytes |-> w1.bytes, pos |-> w1.pos]
        ELSE LET w2 == file_write_int32(w1, alpha_map_get_total_ranges(m))
             IN  IF ~w2.ok THEN [ret |-> -1, bytes |-> w2.bytes, pos |-> w2.pos]
                 ELSE WriteRanges(m, m.first_range, w2)

\* the value of an int32 after file_read_int32 into it: what was read, or,
\* the read having failed, the indeterminate value junk it was left with
ReadInto(r, junk) == IF r.ok THEN r.val ELSE junk

\* the for (i = 0; i < total; i++) loop of alpha_map_read_bin
RECURSIVE ReadRanges(_, _, _, _, _, _)
ReadRanges(bytes, pos, i, total, m, junk) ==
    IF ~(i < total) THEN [map |-> m, pos |-> pos]
    ELSE LET rb == file_read_int32(bytes, pos)
             re == file_read_int32(bytes, rb.pos)
         IN  ReadRanges(bytes, re.pos, i + 1, total,
                 alpha_map_add_range(m, ReadInto(rb, junk), ReadInto(re, junk)).map,
                 junk)

\* faulty variant: the stream is not put back after a signature mismatch
read_bin_no_seek(bytes, pos, junk_total, junk) ==
    LET save_pos == pos
        rs == file_read_int32(bytes, pos)
    IN  IF ~rs.ok \/ ALPHAMAP_SIGNATURE # rs.val
        THEN [ret |-> NULL, map |-> alpha_map_new, pos |-> rs.pos]
        ELSE LET rt == file_read_int32(bytes, rs.pos)
                 r  == ReadRanges(bytes, rt.pos, 0, ReadInto(rt, junk_total),
                                  alpha_map_new, junk)
             IN  [ret |-> 1, map |-> r.map, pos |-> r.pos]

\* faulty variant: one more pair is read than the count says
read_bin_one_more(bytes, pos, junk_total, junk) ==
    LET save_pos == pos
        rs == file_read_int32(bytes, pos)
    IN  IF ~rs.ok \/ ALPHAMAP_SIGNATURE # rs.val
        THEN [ret |-> NULL, map |-> alpha_map_new, pos |-> save_pos]
        ELSE LET rt == file_read_int32(bytes, rs.pos)
                 r  == ReadRanges(bytes, rt.pos, 0, ReadInto(rt, junk_total) + 1,
                                  alpha_map_new, junk)
             IN  [ret |-> 1, map |-> r.map, pos |-> r.pos]

\* alpha_map_read_bin at position pos: the result (NULL or a map), the map and
\* the stream's position afterwards
alpha_map_read_bin(bytes, pos, junk_total, junk) ==
    LET save_pos == pos
        rs == file_read_int32(bytes, pos)
    IN  IF ~rs.ok \/ ALPHAMAP_SIGNATURE # rs.val
        THEN [ret |-> NULL, map |-> alpha_map_new, pos |-> save_pos]
        ELSE LET rt == file_read_int32(bytes, rs.pos)
                 r  == ReadRanges(bytes, rt.pos, 0, ReadInto(rt, junk_total),
                                  alpha_map_new, junk)
             IN  [ret |-> 1, map |-> r.map, pos |-> r.pos]

-----------------------------------------------------------------------------
(* Bounds and inputs *)

\* alpha_map_add_range is called on alpha_map at most this many times
MaxCalls == 2

\* range bounds offered to alpha_map_add_range
Endpoints == {65, 90, 97, 122, 511}

\* characters looked up
CharSamples == {0, 48, 65, 90, 97, 122, 325, 326, 511}

\* trie codes looked up
CodeSamples == {0, 1, 26, 27, 52, 255}

\* the text resource holds at most this many lines
MaxLines == 2

\* the lines a text resource is made of
LineSamples == {
    <<"[", "4", "1", ",", "5", "A", "]", "\n">>,
    <<" ", "[", " ", "6", "1", " ", ",", " ", "7", "a", " ", "]", " ", "\n">>,
    <<"[", "5", ",", "2", "]", "\n">>,
    <<"[", "0", "x", "3", "0", ",", "0", "X", "3", "9", "]", "\n">>,
    <<"#", " ", "a", "-", "z", "\n">>,
    <<"\n">>,
    <<"[", "4", "1", ",", "]", "\n">>,
    <<"[", "4", "1", ",", "5", "A">>,
    <<"[", "8", "0", "0", "0", "0", "0", "0", "0", ",", "1", "]", "\n">>,
    <<"[", "1", ",", "8", "0", "0", "0", "0", "0", "0", "0", "]", "\n">>
}

\* range bounds offered to alpha_map_add_range before the map is encoded:
\* 0x41 and 0x80000041
BinEndpoints == {65, -2147483583}

RECURSIVE Encode(_)
\* the bytes of a sequence of 32-bit integers
Encode(ws) == IF ws = <<>> THEN <<>> ELSE Int32Bytes(Head(ws)) \o Encode(Tail(ws))

\* what the binary stream holds at the start
InitFiles == {
    <<>>,
    <<ALPHAMAP_SIGNATURE_B0, ALPHAMAP_SIGNATURE_B1>>,
    Encode(<<ALPHAMAP_SIGNATURE + 1>>),
    Encode(<<ALPHAMAP_SIGNATURE>>),
    Encode(<<ALPHAMAP_SIGNATURE, 1>>),
    Encode(<<ALPHAMAP_SIGNATURE, -1, 65, 90>>),
    Encode(<<ALPHAMAP_SIGNATURE, 2, 5, 2, 65, 90>>),
    Encode(<<0, ALPHAMAP_SIGNATURE, 2, 65, -2147483583, -2147483583, 65>>)
}

\* alpha_map_read_bin is run on streams that declare at most this many ranges
MaxTotal == 3

\* positions the caller puts the stream at, besides its end
SeekOffsets == {0, 1, 4}

\* integers the stream takes before a write fails
Budgets == {0, 1, 2, 3, 4, 8}

\* values an int32 is left with when the read into it fails
JunkTotals == {-1, 0, 1}
JunkValues == {0, 7}

-----------------------------------------------------------------------------
(* The range list and the lookups *)

NoQuery == [op |-> "none", arg |-> 0, res |-> 0]

NotOpened == [done |-> FALSE, ret |-> NULL, map |-> alpha_map_new]
NotWritten == [done |-> FALSE, start |-> 0, ret |-> 0, ranges |-> <<>>]
NotRead == [done |-> FALSE, start |-> 0, ret |-> NULL, map |-> alpha_map_new,
            end |-> 0]

Init ==
    /\ alpha_map = alpha_map_new
    /\ calls = <<>>
    /\ query = NoQuery
    /\ text = <<>>
    /\ opened = NotOpened
    /\ diag = <<>>
    /\ file = <<>>
    /\ fpos = 0
    /\ wr = NotWritten
    /\ rd = NotRead

AddRange(begin, end) ==
    /\ Len(calls) < MaxCalls
    /\ LET r == alpha_map_add_range(alpha_map, begin, end)
       IN  /\ alpha_map' = r.map
           /\ calls' = Append(calls, [begin |-> begin, end |-> end, ret |-> r.ret])
    /\ UNCHANGED <<query, textVars, binVars>>

CharToTrie(ac) ==
    /\ query' = [op |-> "char_to_trie", arg |-> ac,
                 res |-> alpha_map_char_to_trie(alpha_map, ac)]
    /\ UNCHANGED <<alpha_map, calls, textVars, binVars>>

TrieToChar(tc) ==
    /\ query' = [op |-> "trie_to_char", arg |-> tc,
                 res |-> alpha_map_trie_to_char(alpha_map, tc)]
    /\ UNCHANGED <<alpha_map, calls, textVars, binVars>>

Next ==
    \/ \E begin \in Endpoints, end \in Endpoints : AddRange(begin, end)
    \/ \E ac \in CharSamples : CharToTrie(ac)
    \/ \E tc \in CodeSamples : TrieToChar(tc)

Spec == Init /\ [][Next]_vars

\* the range list alone, as alpha_map_add_range builds it
NextAppend == \E begin \in Endpoints, end \in Endpoints : AddRange(begin, end)

SpecAppend == Init /\ [][NextAppend]_vars

-----------------------------------------------------------------------------
(* The text loader *)

\* a line is added to the text resource before it is opened
WriteLine(line) ==
    /\ ~opened.done
    /\ Len(text) < MaxLines
    /\ text' = Append(text, line)
    /\ UNCHANGED <<opened, diag, mapVars, binVars>>

Open(file_ok) ==
    /\ ~opened.done
    /\ LET r == alpha_map_open(file_ok, text)
       IN  /\ opened' = [done |-> TRUE, ret |-> r.ret, map |-> r.map]
           /\ diag' = diag \o r.diag
    /\ UNCHANGED <<text, mapVars, binVars>>

NextText ==
    \/ \E line \in LineSamples : WriteLine(line)
    \/ \E file_ok \in BOOLEAN : Open(file_ok)

SpecText == Init /\ [][NextText]_vars

-----------------------------------------------------------------------------
(* The binary codec *)

\* the caller's fseek (file, p, SEEK_SET)
Seek(p) ==
    /\ p <= Len(file)
    /\ p # fpos
    /\ fpos' = p
    /\ UNCHANGED <<file, wr, rd, mapVars, textVars>>

\* alpha_map_write_bin (alpha_map, file), once per stream
WriteBin(budget) ==
    /\ ~wr.done
    /\ LET w == alpha_map_write_bin(alpha_map, file, fpos, budget)
       IN  /\ file' = w.bytes
           /\ fpos' = w.pos
           /\ wr' = [done |-> TRUE, start |-> fpos, ret |-> w.ret,
                     ranges |-> RangeSeq(alpha_map)]
    /\ rd' = NotRead
    /\ UNCHANGED <<mapVars, textVars>>

\* the range count alpha_map_read_bin would loop to at the stream's position
TotalAt(bytes, pos, junk_total) ==
    LET rs == file_read_int32(bytes, pos)
    IN  IF ~rs.ok \/ ALPHAMAP_SIGNATURE # rs.val THEN 0
        ELSE ReadInto(file_read_int32(bytes, rs.pos), junk_total)

\* alpha_map_read_bin (file), on streams whose range count is at most MaxTotal
ReadBin(junk_total, junk) ==
    /\ TotalAt(file, fpos, junk_total) <= MaxTotal
    /\ LET r == alpha_map_read_bin(file, fpos, junk_total, junk)
       IN  /\ fpos' = r.pos
           /\ rd' = [done |-> TRUE, start |-> fpos, ret |-> r.ret, map |-> r.map,
                     end |-> r.pos]
    /\ UNCHANGED <<file, wr, mapVars, textVars>>

\* the stream holds something already when the codec is first used
InitBin ==
    /\ alpha_map = alpha_map_new
    /\ calls = <<>>
    /\ query = NoQuery
    /\ text = <<>>
    /\ opened = NotOpened
    /\ diag = <<>>
    /\ file \in InitFiles
    /\ fpos = 0
    /\ wr = NotWritten
    /\ rd = NotRead

NextBin ==
    \/ \E begin \in BinEndpoints, end \in BinEndpoints :
           ~wr.done /\ AddRange(begin, end)
    \/ \E p \in SeekOffsets \cup {Len(file)} : Seek(p)
    \/ \E budget \in Budgets : WriteBin(budget)
    \/ \E junk_total \in JunkTotals, junk \in JunkValues : ReadBin(junk_total, junk)

SpecBin == InitBin /\ [][NextBin]_vars

-----------------------------------------------------------------------------
(* Properties of the range list and the lookups *)

\* characters and codes the properties are evaluated at: the range bounds,
\* their neighbours, and the characters whose code reaches 255 and wraps
CharProbes == {0, 1, 48, 64, 65, 66, 89, 90, 91, 96, 97, 98, 121, 122, 123,
               255, 256, 319, 320, 325, 326, 327, 510, 511, 512}
CodeProbes == {0, 1, 2, 25, 26, 27, 28, 52, 53, 58, 59, 127, 128, 191, 192,
               229, 230, 254, 255}

\* c lies in the range <<begin, end>>
Within(c, r) == ~LtU(c, r[1]) /\ ~LtU(r[2], c)

\* c lies inside some range of the list from cell p on
RECURSIVE Covered(_, _, _)
Covered(m, p, c) ==
    /\ p # NULL
    /\ \/ Within(c, <<m.node[p].begin, m.node[p].end>>)
       \/ Covered(m, m.node[p].next, c)

\* c lies inside some range the map accepted
Accepted(m, c) == Covered(m, m.first_range, c)

\* the accepted calls of a call history, as (begin, end) pairs in call order
RECURSIVE AcceptedCalls(_)
AcceptedCalls(h) ==
    IF h = <<>> THEN <<>>
    ELSE IF LtU(h[1].end, h[1].begin)
         THEN AcceptedCalls(Tail(h))
         ELSE <<<<h[1].begin, h[1].end>>>> \o AcceptedCalls(Tail(h))

RECURSIVE SizeSum(_, _)
\* the sum of end - begin + 1 over the first n ranges of rs
SizeSum(rs, n) ==
    IF n = 0 THEN 0 ELSE SizeSum(rs, n - 1) + (rs[n][2] - rs[n][1] + 1)

\* C1: every character inside an accepted range maps to a code that maps
\* back to that character.
C1_RoundTrip ==
    \A c \in CharProbes :
        Accepted(alpha_map, c) =>
            alpha_map_trie_to_char(alpha_map,
                alpha_map_char_to_trie(alpha_map, c)) = c

\* C4: a nonzero character inside an accepted range is never given the
\* code 0 nor TRIE_CHAR_MAX.
C4_SentinelDisjoint ==
    \A c \in CharProbes :
        (c # 0 /\ Accepted(alpha_map, c)) =>
            /\ alpha_map_char_to_trie(alpha_map, c) # 0
            /\ alpha_map_char_to_trie(alpha_map, c) # TRIE_CHAR_MAX

\* C5: when R1 was inserted before R2 and R1.end < R2.begin, every code of
\* a character of R1 is below every code of a character of R2.
C5_Monotonic ==
    LET rs == RangeSeq(alpha_map) IN
    \A i \in 1..Len(rs), j \in 1..Len(rs) :
        (i < j /\ LtU(rs[i][2], rs[j][1])) =>
            \A c1 \in CharProbes, c2 \in CharProbes :
                (Within(c1, rs[i]) /\ Within(c2, rs[j])) =>
                    alpha_map_char_to_trie(alpha_map, c1)
                        < alpha_map_char_to_trie(alpha_map, c2)

\* the ranges were inserted in ascending, mutually disjoint order
Ascending(rs) == \A i \in 1..(Len(rs) - 1) : LtU(rs[i][2], rs[i + 1][1])

\* C6: with ranges inserted in ascending disjoint order the code of a nonzero
\* c in Range[i] is 1 + the sizes of the ranges before it + (c - Range[i].begin);
\* [0x41,0x5A] then [0x61,0x7A] gives 1, 26, 27, 52 and 0x30 gives TRIE_CHAR_MAX.
C6_CodeAssignment ==
    LET rs == RangeSeq(alpha_map) IN
    /\ Ascending(rs) =>
           \A i \in 1..Len(rs) : \A c \in CharProbes :
               (c # 0 /\ Within(c, rs[i])) =>
                   alpha_map_char_to_trie(alpha_map, c)
                       = 1 + SizeSum(rs, i - 1) + (c - rs[i][1])
    /\ rs = <<<<65, 90>>, <<97, 122>>>> =>
           /\ alpha_map_char_to_trie(alpha_map, 65) = 1
           /\ alpha_map_char_to_trie(alpha_map, 90) = 26
           /\ alpha_map_char_to_trie(alpha_map, 97) = 27
           /\ alpha_map_char_to_trie(alpha_map, 122) = 52
           /\ alpha_map_char_to_trie(alpha_map, 48) = TRIE_CHAR_MAX

C9_AppendOnlyStep ==
    [][ calls' # calls =>
          LET c == calls'[Len(calls')] IN
          IF c.ret = 0
          THEN RangeSeq(alpha_map)' = Append(RangeSeq(alpha_map), <<c.begin, c.end>>)
          ELSE RangeSeq(alpha_map)' = RangeSeq(alpha_map) ]_vars

C10_StableUnderAppend ==
    [][ calls' # calls =>
          /\ \A c \in CharProbes :
                 Accepted(alpha_map, c) =>
                     alpha_map_char_to_trie(alpha_map, c)'
                         = alpha_map_char_to_trie(alpha_map, c)
          /\ \A k \in CodeProbes :
                 alpha_map_trie_to_char(alpha_map, k) # ALPHA_CHAR_ERROR =>
                     alpha_map_trie_to_char(alpha_map, k)'
                         = alpha_map_trie_to_char(alpha_map, k) ]_vars

\* a range was added that covers and precedes the one before it, and the
\* character 0x61 of the earlier range still has the code 1, which still maps
\* back to it
C10_Witness ==
    /\ RangeSeq(alpha_map) = <<<<97, 122>>, <<65, 511>>>>
    /\ calls[Len(calls)] = [begin |-> 65, end |-> 511, ret |-> 0]
    /\ alpha_map_char_to_trie(alpha_map, 97) = 1
    /\ alpha_map_trie_to_char(alpha_map, 1) = 97

-----------------------------------------------------------------------------
(* Properties of the text loader *)

\* the lines that parse as [hex_begin,hex_end] with begin <= end, as
\* (begin, end) pairs in file order
RECURSIVE WellFormedLines(_)
WellFormedLines(lines) ==
    IF lines = <<>> THEN <<>>
    ELSE LET s == sscanf_range(Head(lines))
         IN  IF s.n = 2 /\ ~LtU(s.e, s.b)
             THEN <<<<s.b, s.e>>>> \o WellFormedLines(Tail(lines))
             ELSE WellFormedLines(Tail(lines))

\* the lines that parse as [hex_begin,hex_end] with begin > end
RECURSIVE InvertedLines(_)
InvertedLines(lines) ==
    IF lines = <<>> THEN <<>>
    ELSE LET s == sscanf_range(Head(lines))
         IN  IF s.n = 2 /\ LtU(s.e, s.b)
             THEN <<<<s.b, s.e>>>> \o InvertedLines(Tail(lines))
             ELSE InvertedLines(Tail(lines))

\* C7: the map alpha_map_open returns holds exactly the lines that parse with
\* begin <= end, in file order, and each line that parses with begin > end
\* adds no range and emits a diagnostic.
C7_TextRejection ==
    (opened.done /\ opened.ret # NULL) =>
        /\ RangeSeq(opened.map) = WellFormedLines(text)
        /\ diag = InvertedLines(text)

-----------------------------------------------------------------------------
(* Properties of the binary codec *)

\* C2: when alpha_map_write_bin succeeded and alpha_map_read_bin was then run
\* from where the write started, the decoded map holds the (begin, end) pairs
\* of the encoded one: same number, same values, same order.
C2_BinaryRoundTrip ==
    (wr.done /\ wr.ret = 0 /\ rd.done /\ rd.start = wr.start) =>
        /\ rd.ret # NULL
        /\ RangeSeq(rd.map) = wr.ranges

\* two ranges, one ending above 0x7FFFFFFF, written at an odd offset and
\* read back from there
C2_Witness ==
    /\ wr.done /\ wr.ret = 0 /\ wr.start = 1
    /\ wr.ranges = <<<<65, -2147483583>>, <<65, 65>>>>
    /\ rd.done /\ rd.start = wr.start /\ rd.ret # NULL

\* the 32-bit value at position p of the stream is missing or is not the
\* signature
NoSignatureAt(bytes, p) ==
    \/ p + 4 > Len(bytes)
    \/ SubSeq(bytes, p + 1, p + 4)
           # <<ALPHAMAP_SIGNATURE_B0, ALPHAMAP_SIGNATURE_B1,
               ALPHAMAP_SIGNATURE_B0, ALPHAMAP_SIGNATURE_B1>>

\* C3: alpha_map_read_bin called at position p where the signature is not
\* found returns NULL, makes no map and leaves the stream at p.
C3_FormatMismatch ==
    (rd.done /\ NoSignatureAt(file, rd.start)) =>
        /\ rd.ret = NULL
        /\ rd.map = alpha_map_new
        /\ rd.end = rd.start

\* a whole 32-bit value that is not the signature was read at a position
\* other than the start of the stream
C3_Witness ==
    /\ rd.done /\ rd.ret = NULL
    /\ rd.start > 0
    /\ rd.start + 4 <= Len(file)
    /\ NoSignatureAt(file, rd.start)

\* a short read at the end of the stream
C3_WitnessShort ==
    /\ rd.done /\ rd.ret = NULL
    /\ rd.start < Len(file)
    /\ rd.start + 4 > Len(file)

\* the n (begin, end) pairs the stream holds from position p
RECURSIVE PairsAt(_, _, _)
PairsAt(bytes, p, n) ==
    IF n <= 0 THEN <<>>
    ELSE <<<<BytesInt32(SubSeq(bytes, p + 1, p + 4)),
             BytesInt32(SubSeq(bytes, p + 5, p + 8))>>>>
             \o PairsAt(bytes, p + 8, n - 1)

\* the pairs of ps with begin <= end, in order
RECURSIVE ValidPairs(_)
ValidPairs(ps) ==
    IF ps = <<>> THEN <<>>
    ELSE IF LtU(ps[1][2], ps[1][1]) THEN ValidPairs(Tail(ps))
         ELSE <<ps[1]>> \o ValidPairs(Tail(ps))

\* the range count after the signature at the position rd started from
DeclaredTotal == BytesInt32(SubSeq(file, rd.start + 5, rd.start + 8))

\* alpha_map_read_bin found the signature, read a range count N >= 0 and the
\* stream holds the N pairs after it
DecodedWhole ==
    /\ rd.done
    /\ ~NoSignatureAt(file, rd.start)
    /\ rd.start + 8 <= Len(file)
    /\ DeclaredTotal >= 0
    /\ rd.start + 8 + 8 * DeclaredTotal <= Len(file)

\* C8 as stated: the map returned holds exactly the N pairs read from the
\* stream, in file order, none of them dropped for having begin > end.
C8_DecodeAll ==
    DecodedWhole =>
        /\ rd.ret # NULL
        /\ alpha_map_get_total_ranges(rd.map) = DeclaredTotal
        /\ RangeSeq(rd.map) = PairsAt(file, rd.start + 8, DeclaredTotal)

\* C8 as amended: the map returned holds exactly those of the N pairs read
\* from the stream that have begin <= end, in file order; alpha_map_add_range
\* drops the others.
C8_DecodeValid ==
    DecodedWhole =>
        /\ rd.ret # NULL
        /\ RangeSeq(rd.map) = ValidPairs(PairsAt(file, rd.start + 8, DeclaredTotal))

\* a stream declaring two pairs, the first with begin > end, was decoded
C8_Witness ==
    /\ DecodedWhole
    /\ DeclaredTotal = 2
    /\ PairsAt(file, rd.start + 8, 2) = <<<<5, 2>>, <<65, 90>>>>
    /\ RangeSeq(rd.map) = <<<<65, 90>>>>

====
